---- MODULE Spec2Model ----
(***************************************************************************)
(* Model of the acs-database scraper (src/src/main.rs, src/src/sort_json.rs)*)
(*                                                                         *)
(* Strings are sequences of one-character strings, so that length, prefix, *)
(* substring, case folding and digit parsing are computed as the Rust code *)
(* computes them.                                                          *)
(***************************************************************************)
EXTENDS Integers, Sequences, FiniteSets, TLC

VARIABLES
    mode,           \* which driver runs: "scraper" (main) or "cross" (cross_compare_and_update)
    limit,          \* args.limit: permits of the semaphore
    max_retries,    \* args.retries
    scp_info_vec,   \* output/scp_names.json: the catalog
    acs_database,   \* output/acs_database.json as read by cross_compare_and_update
    backlinks,      \* output/acs_backlinks.json as read by cross_compare_and_update
    tasks,          \* the futures pushed into FuturesUnordered, in creation order
    pc,             \* position of each future
    retries,        \* local `retries` of each scraper future
    result,         \* local `result` / match scrutinee of each future
    slept,          \* seconds of the last tokio::time::sleep of the retry loop
    permits,        \* available permits of the semaphore
    phase,          \* "running" until the collect, then "written"
    output,         \* what write_json wrote to output/acs_database.json
    history,        \* the responses each future has received so far, oldest first
    completed,      \* the futures in the order FuturesUnordered yielded them
    throttle_ms,    \* milliseconds each scraper future slept after its result, 0 for no sleep
    entries,        \* the slice handed to sort_json::sort (sorter specification)
    sort_pc,        \* "unsorted" / "sorted" (sorter specification)
    fn_in,          \* the argument of the function under study (function specifications)
    fn_out,         \* what the function returned for fn_in
    fn_pc           \* which function is under study and how far it has run

vars == <<mode, limit, max_retries, scp_info_vec, acs_database, backlinks, tasks,
          pc, retries, result, slept, permits, phase, output, history, completed, throttle_ms,
          entries, sort_pc, fn_in, fn_out, fn_pc>>

schedVars == <<mode, limit, max_retries, scp_info_vec, acs_database, backlinks, tasks,
               pc, retries, result, slept, permits, phase, output, history, completed,
               throttle_ms>>

sortVars == <<entries, sort_pc>>

fnVars == <<fn_in, fn_out, fn_pc>>

----------------------------------------------------------------------------
(* Bounds *)

MaxTargets == 2
MaxFeed == 2
MaxRetries == 3
MaxLimit == 2
MaxSortLen == 3

----------------------------------------------------------------------------
(* Characters and strings *)

UpperChars == <<"A","B","C","D","E","F","G","H","I","J","K","L","M",
                "N","O","P","Q","R","S","T","U","V","W","X","Y","Z">>
LowerChars == <<"a","b","c","d","e","f","g","h","i","j","k","l","m",
                "n","o","p","q","r","s","t","u","v","w","x","y","z">>
DigitChars == <<"0","1","2","3","4","5","6","7","8","9">>

IndexIn(c, table) == IF \E i \in 1..Len(table) : table[i] = c
                     THEN CHOOSE i \in 1..Len(table) : table[i] = c
                     ELSE 0

\* the byte value of an ASCII character (str::cmp compares bytes)
Ord(c) == IF IndexIn(c, DigitChars) > 0 THEN 47 + IndexIn(c, DigitChars)
          ELSE IF IndexIn(c, UpperChars) > 0 THEN 64 + IndexIn(c, UpperChars)
          ELSE IF IndexIn(c, LowerChars) > 0 THEN 96 + IndexIn(c, LowerChars)
          ELSE IF c = " " THEN 32
          ELSE 45   \* "-"

to_ascii_lowercase(c) == IF IndexIn(c, UpperChars) > 0
                         THEN LowerChars[IndexIn(c, UpperChars)]
                         ELSE c

to_lowercase(s) == [i \in 1..Len(s) |-> to_ascii_lowercase(s[i])]

eq_ignore_ascii_case(a, b) == to_lowercase(a) = to_lowercase(b)

is_ascii_digit(c) == IndexIn(c, DigitChars) > 0

contains(s, sub) ==
    \E i \in 0..(Len(s) - Len(sub)) :
        \A j \in 1..Len(sub) : s[i + j] = sub[j]

\* a.cmp(&b) on strings: "Less", "Equal" or "Greater", byte-wise lexicographic
RECURSIVE str_cmp(_, _)
str_cmp(a, b) ==
    IF a = <<>> /\ b = <<>> THEN "Equal"
    ELSE IF a = <<>> THEN "Less"
    ELSE IF b = <<>> THEN "Greater"
    ELSE IF Ord(Head(a)) < Ord(Head(b)) THEN "Less"
    ELSE IF Ord(Head(a)) > Ord(Head(b)) THEN "Greater"
    ELSE str_cmp(Tail(a), Tail(b))

\* the value of a string of ASCII digits
RECURSIVE digits_value(_)
digits_value(s) ==
    IF s = <<>> THEN 0
    ELSE 10 * digits_value(SubSeq(s, 1, Len(s) - 1)) + (IndexIn(s[Len(s)], DigitChars) - 1)

\* chars().take_while(|c| c.is_ascii_digit())
RECURSIVE take_while_digit(_)
take_while_digit(s) ==
    IF s = <<>> \/ ~is_ascii_digit(Head(s)) THEN <<>>
    ELSE <<Head(s)>> \o take_while_digit(Tail(s))

None == [some |-> FALSE]
Some(v) == [some |-> TRUE, val |-> v]

U16Max == 65535

\* str::parse::<u16>().ok() on a string of ASCII digits
parse_u16(s) ==
    IF s = <<>> THEN None
    ELSE IF digits_value(s) > U16Max THEN None
    ELSE Some(digits_value(s))

SCP_DASH == <<"S","C","P","-">>
scp_dash == <<"s","c","p","-">>

----------------------------------------------------------------------------
(* sort_json.rs *)

MinKeyLen == 7

extract_scp_number_lexicographic(s) == None

extract_scp_number(s) ==
    IF Len(s) < MinKeyLen THEN None
    ELSE IF \A i \in 1..4 : to_ascii_lowercase(s[i]) = to_ascii_lowercase(SCP_DASH[i])
         THEN parse_u16(take_while_digit(SubSeq(s, 5, Len(s))))
         ELSE None

get_field(e, field) == e[field]

compare_none_first(a, b, sort_field) ==
    LET a_field == get_field(a, sort_field)
        b_field == get_field(b, sort_field)
        an == extract_scp_number(a_field)
        bn == extract_scp_number(b_field)
    IN  IF an.some /\ bn.some
        THEN (IF an.val < bn.val THEN "Less"
              ELSE IF an.val > bn.val THEN "Greater" ELSE "Equal")
        ELSE IF an.some THEN "Greater"
        ELSE IF bn.some THEN "Less"
        ELSE str_cmp(a_field, b_field)

\* the closure handed to sort_by
compare(a, b, sort_field) ==
    LET a_field == get_field(a, sort_field)
        b_field == get_field(b, sort_field)
        an == extract_scp_number(a_field)
        bn == extract_scp_number(b_field)
    IN  IF an.some /\ bn.some
        THEN (IF an.val < bn.val THEN "Less"
              ELSE IF an.val > bn.val THEN "Greater" ELSE "Equal")
        ELSE IF an.some THEN "Less"
        ELSE IF bn.some THEN "Greater"
        ELSE str_cmp(a_field, b_field)

\* insertion of e after every element that is not Greater than it: slice::sort_by is stable
RECURSIVE insert_sorted(_, _, _)
insert_sorted(e, s, sort_field) ==
    IF s = <<>> THEN <<e>>
    ELSE IF compare(e, Head(s), sort_field) = "Less"
         THEN <<e>> \o s
         ELSE <<Head(s)>> \o insert_sorted(e, Tail(s), sort_field)

RECURSIVE sort(_, _)
sort(es, sort_field) ==
    IF es = <<>> THEN <<>>
    ELSE insert_sorted(es[Len(es)], sort(SubSeq(es, 1, Len(es) - 1), sort_field), sort_field)

----------------------------------------------------------------------------
(* main.rs: text normalisation *)

WhiteSpace == {" ", "\n", "\t"}

\* str::trim_start
RECURSIVE trim_start(_)
trim_start(s) ==
    IF s # <<>> /\ Head(s) \in WhiteSpace THEN trim_start(Tail(s)) ELSE s

\* str::trim_end
RECURSIVE trim_end(_)
trim_end(s) ==
    IF s # <<>> /\ s[Len(s)] \in WhiteSpace THEN trim_end(SubSeq(s, 1, Len(s) - 1)) ELSE s

\* str::trim
trim(s) == trim_end(trim_start(s))

\* the part of s before the first c (all of s when c does not occur)
RECURSIVE before_first(_, _)
before_first(s, c) ==
    IF s = <<>> \/ Head(s) = c THEN <<>>
    ELSE <<Head(s)>> \o before_first(Tail(s), c)

\* str::split_once(c): the parts before and after the first c, or None
split_once(s, c) ==
    IF \E i \in 1..Len(s) : s[i] = c
    THEN Some(<<before_first(s, c), SubSeq(s, Len(before_first(s, c)) + 2, Len(s))>>)
    ELSE None

extract_string_after_colon(text) ==
    LET halves == split_once(text, ":")
    IN  IF ~halves.some THEN <<>>
        ELSE LET rest == halves.val[2]
                 line == IF split_once(rest, "\n").some
                         THEN split_once(rest, "\n").val[1] ELSE rest
             IN  trim_start(line)

PLACEHOLDER == <<"{","$">>
NONE_WORD == <<"n","o","n","e">>
NA_LOWER == <<"n","/","a">>
NA_UPPER == <<"N","/","A">>

clean_text_slash_first(raw) ==
    LET text == trim(raw)
    IN  IF contains(text, PLACEHOLDER) \/ eq_ignore_ascii_case(text, NONE_WORD) THEN <<>>
        ELSE IF ~(contains(text, NA_LOWER) \/ contains(text, NA_UPPER)) /\ contains(text, <<"/">>)
        THEN split_once(text, "/").val[2]
        ELSE IF contains(text, <<":">>) THEN extract_string_after_colon(text)
        ELSE text

clean_text(raw) ==
    LET text == trim(raw)
    IN  IF contains(text, PLACEHOLDER) \/ eq_ignore_ascii_case(text, NONE_WORD) THEN <<>>
        ELSE IF contains(text, <<":">>) THEN extract_string_after_colon(text)
        ELSE IF ~(contains(text, NA_LOWER) \/ contains(text, NA_UPPER)) /\ contains(text, <<"/">>)
        THEN split_once(text, "/").val[2]
        ELSE text

----------------------------------------------------------------------------
(* main.rs: helpers *)

RECURSIVE decimal(_)
decimal(n) == IF n < 10 THEN <<DigitChars[n + 1]>>
              ELSE decimal(n \div 10) \o <<DigitChars[(n % 10) + 1]>>

PadWidth == 3
PadBelow == 99

\* format!("SCP-{:03}", number) / format!("SCP-{}", number)
format_number(number) ==
    IF number <= PadBelow
    THEN SCP_DASH \o [i \in 1..(PadWidth - Len(decimal(number))) |-> "0"] \o decimal(number)
    ELSE SCP_DASH \o decimal(number)

LEVEL == <<"L", "E", "V", "E", "L", " ">>

\* the first match of \d, formatted as "LEVEL {}", or the text itself
clearance_level_conversion(text) ==
    IF \E i \in 1..Len(text) : is_ascii_digit(text[i])
    THEN LEVEL \o <<text[CHOOSE i \in 1..Len(text) :
                            /\ is_ascii_digit(text[i])
                            /\ \A j \in 1..(i - 1) : ~is_ascii_digit(text[j])]>>
    ELSE text

ValidContainmentClasses == {<<"s", "a", "f", "e">>, <<"e", "u", "c", "l", "i", "d">>, <<"k", "e", "t", "e", "r">>, <<"n", "e", "u", "t", "r", "a", "l", "i", "z", "e", "d">>,
                            <<"p", "e", "n", "d", "i", "n", "g">>, <<"e", "x", "p", "l", "a", "i", "n", "e", "d">>, <<"e", "s", "o", "t", "e", "r", "i", "c">>}

is_valid_containment_class(class) ==
    \E valid_class \in ValidContainmentClasses : eq_ignore_ascii_case(class, valid_class)

\* the clearance texts of "LEVEL 1" .. "LEVEL 6"
ClearanceTexts == <<<<"U", "n", "r", "e", "s", "t", "r", "i", "c", "t", "e", "d">>, <<"R", "e", "s", "t", "r", "i", "c", "t", "e", "d">>, <<"C", "o", "n", "f", "i", "d", "e", "n", "t", "i", "a", "l">>, <<"S", "e", "c", "r", "e", "t">>,
                    <<"T", "o", "p", " ", "S", "e", "c", "r", "e", "t">>, <<"C", "o", "s", "m", "i", "c", " ", "T", "o", "p", " ", "S", "e", "c", "r", "e", "t", " ">>>>

\* a name holding "scp-" replaces the identifier
resolve_actual_number(name, actual_number) ==
    IF contains(to_lowercase(name), scp_dash) THEN name ELSE actual_number

\* create_acs on an Acs::Vanilla (display_number and url pass through and are left out)
create_acs(acs) ==
    LET clearance_text ==
            IF acs.clearance_text = <<>>
            THEN IF \E k \in 1..Len(ClearanceTexts) : acs.clearance = LEVEL \o decimal(k)
                 THEN ClearanceTexts[CHOOSE k \in 1..Len(ClearanceTexts) :
                                         acs.clearance = LEVEL \o decimal(k)]
                 ELSE <<>>
            ELSE acs.clearance_text
    IN  [name |-> acs.name,
         actual_number |-> resolve_actual_number(acs.name, acs.actual_number),
         fragment |-> acs.fragment,
         contain |-> clean_text(acs.contain),
         secondary |-> clean_text(acs.secondary),
         disrupt |-> clean_text(acs.disrupt),
         scraper |-> clean_text(acs.scraper),
         clearance |-> clean_text(acs.clearance),
         clearance_text |-> clean_text(clearance_text),
         risk |-> clean_text(acs.risk)]

\* find(|scp| scp.actual_number == actual_number) over output/scp_names.json
get_name_display_number(names, actual_number) ==
    IF \E k \in 1..Len(names) : names[k].actual_number = actual_number
    THEN Some(names[CHOOSE k \in 1..Len(names) :
                        /\ names[k].actual_number = actual_number
                        /\ \A j \in 1..(k - 1) : names[j].actual_number # actual_number].name)
    ELSE None

Err == [tag |-> "Err"]
OkNone == [tag |-> "OkNone"]
OkSome(d) == [tag |-> "OkSome", data |-> d]

has_marker(doc) ==
    doc.has_anom_bar \/ doc.has_lite_anom_bar \/ doc.has_hybrid_anom_bar
        \/ doc.has_flops_header \/ doc.has_aim_header

SCRAPER_BAR == <<"A", "C", "S", " ", "B", "a", "r">>
SCRAPER_HYBRID == <<"A", "C", "S", " ", "H", "y", "b", "r", "i", "d", " ", "B", "a", "r">>
SCRAPER_FLOPS == <<"F", "l", "o", "p", "s", " ", "H", "e", "a", "d", "e", "r">>
SCRAPER_AIM == <<"A", "I", "M", " ", "H", "e", "a", "d", "e", "r">>
SCRAPER_BACKUP == <<"B", "a", "c", "k", "u", "p">>

\* A document holds the markers, the texts its selectors give to the extractor that
\* runs (clearance .. risk), the class attribute the AIM selector gives (aim_class) and
\* the text of its root element (text).

LABEL_CONTAIN == <<"c", "o", "n", "t", "a", "i", "n", "m", "e", "n", "t", " ", "c", "l", "a", "s", "s", ":">>
LABEL_DISRUPT == <<"d", "i", "s", "r", "u", "p", "t", "i", "o", "n", " ", "c", "l", "a", "s", "s", ":">>
LABEL_RISK == <<"r", "i", "s", "k", " ", "c", "l", "a", "s", "s", ":">>
LABEL_SECONDARY == <<"s", "e", "c", "o", "n", "d", "a", "r", "y", " ", "c", "l", "a", "s", "s", ":">>

\* str::find: the index of the first occurrence of pat in text, 0 when there is none
find(text, pat) ==
    IF contains(text, pat)
    THEN CHOOSE i \in 1..Len(text) :
             /\ i + Len(pat) - 1 <= Len(text)
             /\ SubSeq(text, i, i + Len(pat) - 1) = pat
             /\ \A j \in 1..(i - 1) :
                    ~(j + Len(pat) - 1 <= Len(text) /\ SubSeq(text, j, j + Len(pat) - 1) = pat)
    ELSE 0

\* the value after the first occurrence of a label, None when the label does not occur
label_value(text, search_str) ==
    IF find(text, search_str) > 0
    THEN Some(extract_string_after_colon(SubSeq(text, find(text, search_str), Len(text))))
    ELSE None

KEYWORDS == <<<<" ", "v", "l", "a", "m", " ">>, <<" ", "k", "e", "n", "e", "q", " ">>, <<" ", "e", "k", "h", "i", " ">>, <<" ", "a", "m", "i", "d", "a", " ">>>>

\* the first keyword of the list the text contains, trimmed
keyword_found(text) ==
    IF \E k \in 1..Len(KEYWORDS) : contains(text, KEYWORDS[k])
    THEN Some(trim(KEYWORDS[CHOOSE k \in 1..Len(KEYWORDS) :
                                /\ contains(text, KEYWORDS[k])
                                /\ \A j \in 1..(k - 1) : ~contains(text, KEYWORDS[j])]))
    ELSE None

\* get_clean!: the cleaned value of a key of `results`, "" for a key that is not there
get_clean(item) == IF item.some THEN clean_text(item.val) ELSE <<>>

nothing_found_with_contain(contain, disrupt, risk, secondary) ==
    contain = <<>> /\ disrupt = <<>> /\ risk = <<>> /\ secondary = <<>>

nothing_found(contain, disrupt, risk, secondary) ==
    disrupt = <<>> /\ risk = <<>> /\ secondary = <<>>

backup_acs_function(document) ==
    LET text == to_lowercase(document.text)
        contain == get_clean(label_value(text, LABEL_CONTAIN))
        disrupt == get_clean(IF keyword_found(text).some THEN keyword_found(text)
                             ELSE label_value(text, LABEL_DISRUPT))
        risk == get_clean(label_value(text, LABEL_RISK))
        secondary == get_clean(label_value(text, LABEL_SECONDARY))
    IN  IF nothing_found(contain, disrupt, risk, secondary) THEN None
        ELSE Some([tag |-> "Backup", contain |-> contain, secondary |-> secondary,
                   disrupt |-> disrupt, scraper |-> SCRAPER_BACKUP, risk |-> risk])

get_acs_bar(document) ==
    [tag |-> "Bar",
     contain |-> clean_text(document.contain),
     secondary |-> clean_text(document.secondary),
     disrupt |-> clean_text(document.disrupt),
     scraper |-> SCRAPER_BAR,
     clearance |-> clearance_level_conversion(clean_text(document.clearance)),
     clearance_text |-> clean_text(document.clearance_text),
     risk |-> clean_text(document.risk)]

CLEARANCE_WORD == <<"C", "l", "e", "a", "r", "a", "n", "c", "e">>

get_acs_hybrid_bar(document) ==
    [tag |-> "Bar",
     contain |-> clean_text(document.contain),
     secondary |-> clean_text(document.secondary),
     disrupt |-> clean_text(document.disrupt),
     scraper |-> SCRAPER_HYBRID,
     clearance |-> clearance_level_conversion(document.clearance),
     clearance_text |-> IF eq_ignore_ascii_case(clean_text(document.clearance_text),
                                                CLEARANCE_WORD)
                        THEN <<>> ELSE clean_text(document.clearance_text),
     risk |-> clean_text(document.risk)]

get_flops_header(document) ==
    LET contain == clean_text(document.contain)
    IN  [tag |-> "Flops",
         contain |-> IF is_valid_containment_class(contain) THEN contain ELSE <<"e", "s", "o", "t", "e", "r", "i", "c">>,
         secondary |-> IF is_valid_containment_class(contain) THEN <<>> ELSE contain,
         disrupt |-> clean_text(document.disrupt),
         scraper |-> SCRAPER_FLOPS,
         clearance |-> clearance_level_conversion(clean_text(document.clearance)),
         clearance_text |-> clean_text(document.clearance_text)]

\* the class names "one" .. "six" of the AIM clearance element
AimClassNames == <<<<"o", "n", "e">>, <<"t", "w", "o">>, <<"t", "h", "r", "e", "e">>, <<"f", "o", "u", "r">>, <<"f", "i", "v", "e">>, <<"s", "i", "x">>>>

get_aim_header(document) ==
    LET contain == clean_text(document.contain)
    IN  [tag |-> "Aim",
         contain |-> IF is_valid_containment_class(contain) THEN contain ELSE <<"e", "s", "o", "t", "e", "r", "i", "c">>,
         secondary |-> IF is_valid_containment_class(contain) THEN <<>> ELSE contain,
         disrupt |-> clean_text(document.disrupt),
         scraper |-> SCRAPER_AIM,
         clearance |-> IF IndexIn(document.aim_class, AimClassNames) > 0
                       THEN LEVEL \o decimal(IndexIn(document.aim_class, AimClassNames))
                       ELSE <<>>]

convert_to_vanilla_risk_from_disrupt(acs, name, actual_number, fragment) ==
    [name |-> name,
     actual_number |-> actual_number,
     fragment |-> fragment,
     contain |-> acs.contain,
     secondary |-> acs.secondary,
     disrupt |-> acs.disrupt,
     scraper |-> acs.scraper,
     clearance |-> IF acs.tag = "Backup" THEN <<>> ELSE acs.clearance,
     clearance_text |-> IF acs.tag \in {"Aim", "Backup"} THEN <<>> ELSE acs.clearance_text,
     risk |-> IF acs.tag \in {"Flops", "Aim"} THEN acs.disrupt ELSE acs.risk]

convert_to_vanilla(acs, name, actual_number, fragment) ==
    [name |-> name,
     actual_number |-> actual_number,
     fragment |-> fragment,
     contain |-> acs.contain,
     secondary |-> acs.secondary,
     disrupt |-> acs.disrupt,
     scraper |-> acs.scraper,
     clearance |-> IF acs.tag = "Backup" THEN <<>> ELSE acs.clearance,
     clearance_text |-> IF acs.tag \in {"Aim", "Backup"} THEN <<>> ELSE acs.clearance_text,
     risk |-> IF acs.tag \in {"Flops", "Aim"} THEN <<>> ELSE acs.risk]

acs_data_hybrid_first(document) ==
    IF document.has_hybrid_anom_bar THEN Some(get_acs_hybrid_bar(document))
    ELSE IF document.has_anom_bar \/ document.has_lite_anom_bar THEN Some(get_acs_bar(document))
    ELSE IF document.has_flops_header THEN Some(get_flops_header(document))
    ELSE IF document.has_aim_header THEN Some(get_aim_header(document))
    ELSE backup_acs_function(document)

\* the fallback chain of fetch_acs_data: the raw record of the first strategy whose
\* marker the document has, None when the text scan finds nothing
acs_data(document) ==
    IF document.has_anom_bar \/ document.has_lite_anom_bar THEN Some(get_acs_bar(document))
    ELSE IF document.has_hybrid_anom_bar THEN Some(get_acs_hybrid_bar(document))
    ELSE IF document.has_flops_header THEN Some(get_flops_header(document))
    ELSE IF document.has_aim_header THEN Some(get_aim_header(document))
    ELSE backup_acs_function(document)

\* request_page, then the fallback chain, convert_to_vanilla and create_acs.
\* resp is what the HTTP collaborator answers to this attempt.
fetch_acs_data(names, actual_number, name, resp, fragment) ==
    IF resp.status = "error" THEN Err
    ELSE IF resp.status = "404" THEN OkNone
    ELSE LET needs_lookup ==
                 /\ ~eq_ignore_ascii_case(actual_number, scp_dash \o <<"0","0","0">>)
                 /\ ~eq_ignore_ascii_case(actual_number, scp_dash \o <<"0","0","1">>)
                 /\ (~name.some \/ name.val = <<>>)
                 /\ (contains(actual_number, scp_dash) \/ contains(actual_number, SCP_DASH))
             looked == get_name_display_number(names, actual_number)
         IN  IF needs_lookup /\ ~looked.some THEN Err
             ELSE IF ~acs_data(resp).some THEN OkNone
             ELSE OkSome(create_acs(convert_to_vanilla(
                     acs_data(resp).val,
                     IF needs_lookup THEN looked.val
                     ELSE IF name.some THEN name.val ELSE <<>>,
                     actual_number,
                     fragment)))

fetch_and_update_entry(names, actual_number, name, resp, fragment) ==
    LET r == fetch_acs_data(names, actual_number, Some(name), resp, fragment)
    IN  IF r.tag = "OkSome" THEN OkSome(create_acs(r.data)) ELSE Err

----------------------------------------------------------------------------
(* Inputs of a run *)

StartNumber == 99

NameAlpha == <<"A","l","p","h","a">>
name_alpha == <<"a","l","p","h","a">>
NameBeta  == <<"B","e","t","a">>
NameGamma == <<"G","a","m","m","a">>
NameDelta == <<"D","e","l","t","a">>

SCPInfo(n) == [actual_number |-> format_number(n),
               name |-> IF n % 2 = 0 THEN NameAlpha ELSE NameBeta,
               url |-> n]

\* output/scp_names.json: every number of the range, or all but the last
FullCatalog == [k \in 1..MaxTargets |-> SCPInfo(StartNumber + k - 1)]
GapCatalog == [k \in 1..(MaxTargets - 1) |-> SCPInfo(StartNumber + k - 1)]
Catalogs == {FullCatalog, GapCatalog}

\* a record of output/acs_database.json
Vanilla(number, name, fragment) ==
    [name |-> name, actual_number |-> number, fragment |-> fragment,
     contain |-> <<>>, secondary |-> <<>>, disrupt |-> <<>>, scraper |-> SCRAPER_BAR,
     clearance |-> <<>>, clearance_text |-> <<>>, risk |-> <<>>]

RecA == Vanilla(format_number(100), NameAlpha, FALSE)
RecB == Vanilla(format_number(500), NameBeta, TRUE)
RecC == Vanilla(format_number(700), NameBeta, FALSE)

\* output/acs_database.json is written sorted by actual_number
Databases == {d \in {<<>>, <<RecA>>, <<RecA, RecB>>, <<RecB>>, <<RecA, RecC>>} :
                 sort(d, "actual_number") = d}

BacklinksInfo(number, name, fragment) ==
    [actual_number |-> number, name |-> name, fragment |-> fragment, url |-> number]

LinkSameNumber == BacklinksInfo(scp_dash \o <<"1","0","0">>, NameGamma, FALSE)
LinkSameName   == BacklinksInfo(format_number(200), name_alpha, FALSE)
LinkNew        == BacklinksInfo(format_number(300), NameDelta, FALSE)
\* a fragment page carries the number and the name of its parent (backlinks.rs:231-236)
LinkNewFrag    == BacklinksInfo(format_number(300), NameDelta, TRUE)
Links == {LinkSameNumber, LinkSameName, LinkNew, LinkNewFrag}

RECURSIVE SeqsUpTo(_, _)
SeqsUpTo(S, n) ==
    IF n = 0 THEN {<<>>}
    ELSE SeqsUpTo(S, n - 1) \cup
         {Append(q, x) : q \in {r \in SeqsUpTo(S, n - 1) : Len(r) = n - 1}, x \in S}

Feeds == SeqsUpTo(Links, MaxFeed)

RISK_LINE == <<"R", "i", "s", "k", " ", "C", "l", "a", "s", "s", ":", " ", "a">>

\* a page with or without the ACS bar, whose text holds a risk label or nothing
Document(bar, found) ==
    [status |-> "200", has_anom_bar |-> bar, has_lite_anom_bar |-> FALSE,
     has_hybrid_anom_bar |-> FALSE, has_flops_header |-> FALSE,
     has_aim_header |-> FALSE,
     clearance |-> <<>>, clearance_text |-> <<>>, contain |-> <<>>, secondary |-> <<>>,
     disrupt |-> <<>>, risk |-> <<>>, aim_class |-> <<>>,
     text |-> IF found THEN RISK_LINE ELSE <<>>]

RespError == [status |-> "error"]
Resp404 == [status |-> "404"]

\* what the HTTP collaborator may answer to one request
Responses == {RespError, Resp404, Document(TRUE, FALSE),
              Document(FALSE, FALSE), Document(FALSE, TRUE)}

----------------------------------------------------------------------------
(* The two drivers *)

TaskIds == 1..Len(tasks)

InFlightPcs == {"fetch", "backoff", "throttle"}

InFlight == {i \in TaskIds : pc[i] \in InFlightPcs}

Init ==
    /\ mode \in {"scraper", "cross"}
    /\ limit \in 0..MaxLimit
    /\ max_retries \in 0..MaxRetries
    /\ scp_info_vec \in Catalogs
    /\ IF mode = "cross"
       THEN /\ acs_database \in Databases
            /\ backlinks \in Feeds
            /\ scp_info_vec = FullCatalog
            /\ max_retries = MaxRetries
       ELSE /\ acs_database = <<>>
            /\ backlinks = <<>>
    /\ tasks = <<>>
    /\ pc = <<>>
    /\ retries = <<>>
    /\ result = <<>>
    /\ slept = <<>>
    /\ history = <<>>
    /\ completed = <<>>
    /\ throttle_ms = <<>>
    /\ permits = limit
    /\ phase = "start"
    /\ output = <<>>
    /\ entries = <<>>
    /\ sort_pc = "off"
    /\ fn_in = <<>>
    /\ fn_out = <<>>
    /\ fn_pc = "off"

\* the closure of any(): does this database item make the link item count as present?
is_present_by_name_only(db_item, link_item) ==
    \/ eq_ignore_ascii_case(db_item.name, link_item.name)
    \/ db_item.fragment

is_present(db_item, link_item) ==
    \/ eq_ignore_ascii_case(db_item.actual_number, link_item.actual_number)
    \/ eq_ignore_ascii_case(db_item.name, link_item.name)
    \/ db_item.fragment

\* filter_map over the backlinks: the link items that get a future
RECURSIVE filter_new(_, _)
filter_new(links, db) ==
    IF links = <<>> THEN <<>>
    ELSE IF \E k \in 1..Len(db) : is_present(db[k], Head(links))
         THEN filter_new(Tail(links), db)
         ELSE <<Head(links)>> \o filter_new(Tail(links), db)

\* (start..=end).map(...): one future per number, with the catalog entry find() returns
scraper_tasks ==
    [k \in 1..MaxTargets |->
        LET n == StartNumber + k - 1
            hit == {j \in 1..Len(scp_info_vec) : scp_info_vec[j].actual_number = format_number(n)}
        IN  [number |-> n,
             info |-> IF hit = {} THEN None
                      ELSE Some(scp_info_vec[CHOOSE j \in hit : \A h \in hit : j <= h])]]

\* building the FuturesUnordered and the semaphore
Spawn ==
    /\ phase = "start"
    /\ tasks' = IF mode = "scraper" THEN scraper_tasks
                ELSE filter_new(backlinks, acs_database)
    /\ pc' = [i \in 1..Len(tasks') |-> "pending"]
    /\ retries' = [i \in 1..Len(tasks') |-> 0]
    /\ result' = [i \in 1..Len(tasks') |-> [tag |-> "unset"]]
    /\ slept' = [i \in 1..Len(tasks') |-> 0]
    /\ history' = [i \in 1..Len(tasks') |-> <<>>]
    /\ throttle_ms' = [i \in 1..Len(tasks') |-> 0]
    /\ phase' = "running"
    /\ UNCHANGED <<mode, limit, max_retries, scp_info_vec, acs_database, backlinks,
                   permits, output, completed, entries, sort_pc, fn_in, fn_out, fn_pc>>

drop_permit_kept(p) == p

\* drop of `_permit` when the future returns: its permit goes back to the semaphore
drop_permit(p) == p + 1

can_acquire_never(p) == FALSE

can_acquire_spare(p) == p > 1

can_acquire_unbounded(p) == TRUE

\* Semaphore::acquire completes only when a permit is available
can_acquire(p) == p > 0

\* semaphore.acquire().await of a future whose target is to be fetched
Acquire(i) ==
    /\ phase = "running"
    /\ pc[i] = "pending"
    /\ mode = "scraper" => tasks[i].info.some
    /\ can_acquire(permits)
    /\ permits' = permits - 1
    /\ pc' = [pc EXCEPT ![i] = "fetch"]
    /\ UNCHANGED <<mode, limit, max_retries, scp_info_vec, acs_database, backlinks, tasks,
                   retries, result, slept, phase, output, history, completed, entries, sort_pc, fn_in, fn_out, fn_pc, throttle_ms>>

\* scraper future of a number without SCPInfo: returns None without taking a permit
NoInfo(i) ==
    /\ phase = "running"
    /\ mode = "scraper"
    /\ pc[i] = "pending"
    /\ ~tasks[i].info.some
    /\ pc' = [pc EXCEPT ![i] = "done"]
    /\ result' = [result EXCEPT ![i] = OkNone]
    /\ completed' = Append(completed, i)
    /\ UNCHANGED <<mode, limit, max_retries, scp_info_vec, acs_database, backlinks, tasks,
                   retries, slept, permits, phase, output, history, entries, sort_pc, fn_in, fn_out, fn_pc, throttle_ms>>

should_retry_inclusive(r, n, ceiling) == r.tag = "Err" /\ n <= ceiling

should_retry_unless_data(r, n, ceiling) == r.tag # "OkSome" /\ n < ceiling

\* while result.is_err() && retries < args.retries.into()
should_retry(r, n, ceiling) == r.tag = "Err" /\ n < ceiling

backoff_secs_exponential(n) == 2 ^ n

\* Duration::from_secs(2 * retries)
backoff_secs(n) == 2 * n

THROTTLE_MS == 1000

throttles_when_found(r) == r.tag # "Err"

\* the arm Ok(Some(data)) of the match sleeps before it returns
throttles(r) == r.tag = "OkSome"

\* a fetch_acs_data(...).await of a scraper future returns; the loop test and the match follow
ScraperFetch(i, resp) ==
    /\ phase = "running"
    /\ mode = "scraper"
    /\ pc[i] = "fetch"
    /\ LET r == fetch_acs_data(scp_info_vec, format_number(tasks[i].number), None, resp, FALSE)
       IN  /\ result' = [result EXCEPT ![i] = r]
           /\ history' = [history EXCEPT ![i] = Append(@, resp)]
           /\ IF should_retry(r, retries[i], max_retries)
              THEN /\ retries' = [retries EXCEPT ![i] = @ + 1]
                   /\ slept' = [slept EXCEPT ![i] = backoff_secs(retries'[i])]
                   /\ pc' = [pc EXCEPT ![i] = "backoff"]
                   /\ UNCHANGED <<permits, completed, throttle_ms>>
              ELSE IF throttles(r)
              THEN /\ pc' = [pc EXCEPT ![i] = "throttle"]
                   /\ throttle_ms' = [throttle_ms EXCEPT ![i] = THROTTLE_MS]
                   /\ UNCHANGED <<retries, slept, permits, completed>>
              ELSE /\ pc' = [pc EXCEPT ![i] = "done"]
                   /\ permits' = drop_permit(permits)
                   /\ completed' = Append(completed, i)
                   /\ UNCHANGED <<retries, slept, throttle_ms>>
    /\ UNCHANGED <<mode, limit, max_retries, scp_info_vec, acs_database, backlinks, tasks,
                   phase, output, entries, sort_pc, fn_in, fn_out, fn_pc>>

\* the sleep of the retry loop is over: the next fetch_acs_data is issued
BackoffElapsed(i) ==
    /\ phase = "running"
    /\ pc[i] = "backoff"
    /\ pc' = [pc EXCEPT ![i] = "fetch"]
    /\ UNCHANGED <<mode, limit, max_retries, scp_info_vec, acs_database, backlinks, tasks,
                   retries, result, slept, permits, phase, output, history, completed,
                   entries, sort_pc, fn_in, fn_out, fn_pc, throttle_ms>>

\* the 1000 ms sleep after Ok(Some(data)) is over: the future returns and drops its permit
ThrottleElapsed(i) ==
    /\ phase = "running"
    /\ pc[i] = "throttle"
    /\ pc' = [pc EXCEPT ![i] = "done"]
    /\ permits' = drop_permit(permits)
    /\ completed' = Append(completed, i)
    /\ UNCHANGED <<mode, limit, max_retries, scp_info_vec, acs_database, backlinks, tasks,
                   retries, result, slept, phase, output, history, entries, sort_pc, fn_in, fn_out, fn_pc, throttle_ms>>

\* the cross future, had it the retry loop of the scraper future
CrossFetchRetrying(i, resp) ==
    /\ phase = "running"
    /\ mode = "cross"
    /\ pc[i] = "fetch"
    /\ LET r == fetch_and_update_entry(scp_info_vec, tasks[i].actual_number, tasks[i].name,
                                       resp, tasks[i].fragment)
       IN  /\ result' = [result EXCEPT ![i] = r]
           /\ history' = [history EXCEPT ![i] = Append(@, resp)]
           /\ IF should_retry(r, retries[i], max_retries)
              THEN /\ retries' = [retries EXCEPT ![i] = @ + 1]
                   /\ slept' = [slept EXCEPT ![i] = backoff_secs(retries'[i])]
                   /\ pc' = pc
                   /\ UNCHANGED <<permits, completed>>
              ELSE /\ pc' = [pc EXCEPT ![i] = "done"]
                   /\ permits' = drop_permit(permits)
                   /\ completed' = Append(completed, i)
                   /\ UNCHANGED <<retries, slept>>
    /\ UNCHANGED <<mode, limit, max_retries, scp_info_vec, acs_database, backlinks, tasks,
                   phase, output, entries, sort_pc, fn_in, fn_out, fn_pc, throttle_ms>>

\* fetch_and_update_entry(...).await of a cross future returns; the future ends
CrossFetch(i, resp) ==
    /\ phase = "running"
    /\ mode = "cross"
    /\ pc[i] = "fetch"
    /\ result' = [result EXCEPT ![i] =
           fetch_and_update_entry(scp_info_vec, tasks[i].actual_number, tasks[i].name,
                                  resp, tasks[i].fragment)]
    /\ history' = [history EXCEPT ![i] = Append(@, resp)]
    /\ pc' = [pc EXCEPT ![i] = "done"]
    /\ permits' = drop_permit(permits)
    /\ completed' = Append(completed, i)
    /\ UNCHANGED <<mode, limit, max_retries, scp_info_vec, acs_database, backlinks, tasks,
                   retries, slept, phase, output, entries, sort_pc, fn_in, fn_out, fn_pc, throttle_ms>>

\* what future i resolved to: Some(data) or None
future_value(i) == IF result[i].tag = "OkSome" THEN Some(result[i].data) ELSE None

all_or_nothing(values) ==
    IF \E k \in 1..Len(values) : ~values[k].some THEN <<>>
    ELSE [k \in 1..Len(values) |-> values[k].val]

\* into_iter().flatten().collect(): the data of the Some values, in order
RECURSIVE flatten(_)
flatten(values) ==
    IF values = <<>> THEN <<>>
    ELSE IF Head(values).some THEN <<Head(values).val>> \o flatten(Tail(values))
    ELSE flatten(Tail(values))

merge_overwrite(db, new_entries) == new_entries

\* acs_database.extend(new_entries)
extend(db, new_entries) == db \o new_entries

\* the values in the order FuturesUnordered yielded them
collected == [k \in 1..Len(completed) |-> future_value(completed[k])]

\* collect().await, then flatten, (extend,) sort and write_json
Collect ==
    /\ phase = "running"
    /\ \A i \in TaskIds : pc[i] = "done"
    /\ output' = IF mode = "scraper"
                 THEN sort(flatten(collected), "actual_number")
                 ELSE sort(extend(acs_database, flatten(collected)), "actual_number")
    /\ phase' = "written"
    /\ UNCHANGED <<mode, limit, max_retries, scp_info_vec, acs_database, backlinks, tasks,
                   pc, retries, result, slept, permits, history, completed, entries, sort_pc, fn_in, fn_out, fn_pc, throttle_ms>>

Next ==
    \/ Spawn
    \/ \E i \in TaskIds : Acquire(i)
    \/ \E i \in TaskIds : NoInfo(i)
    \/ \E i \in TaskIds, resp \in Responses : ScraperFetch(i, resp)
    \/ \E i \in TaskIds : BackoffElapsed(i)
    \/ \E i \in TaskIds : ThrottleElapsed(i)
    \/ \E i \in TaskIds, resp \in Responses : CrossFetch(i, resp)
    \/ Collect

Spec == Init /\ [][Next]_vars

\* Collect without its sort: enabled exactly when Collect is, so that fairness on it
\* says that the run does not stay for ever where the collect can be done
Finish ==
    /\ phase = "running"
    /\ \A i \in TaskIds : pc[i] = "done"
    /\ phase' = "written"
    /\ UNCHANGED <<mode, limit, max_retries, scp_info_vec, acs_database, backlinks, tasks,
                   pc, retries, result, slept, permits, output, history, completed,
                   throttle_ms, entries, sort_pc, fn_in, fn_out, fn_pc>>

\* the steps of Next
Progress ==
    \/ Spawn
    \/ \E i \in TaskIds : Acquire(i)
    \/ \E i \in TaskIds : NoInfo(i)
    \/ \E i \in TaskIds, resp \in Responses : ScraperFetch(i, resp)
    \/ \E i \in TaskIds : BackoffElapsed(i)
    \/ \E i \in TaskIds : ThrottleElapsed(i)
    \/ \E i \in TaskIds, resp \in Responses : CrossFetch(i, resp)
    \/ Finish

\* every fetch returns, every sleep ends and the runtime polls a future that can go on
SpecFair == Init /\ [][Next]_vars /\ WF_vars(Progress)

\* the future whose fetch never returns
Hung == 1

\* the steps of Next that do not need the hung fetch to return
ProgressButHung ==
    \/ Spawn
    \/ \E i \in TaskIds : Acquire(i)
    \/ \E i \in TaskIds : NoInfo(i)
    \/ \E i \in TaskIds \ {Hung}, resp \in Responses : ScraperFetch(i, resp)
    \/ \E i \in TaskIds : BackoffElapsed(i)
    \/ \E i \in TaskIds : ThrottleElapsed(i)
    \/ \E i \in TaskIds \ {Hung}, resp \in Responses : CrossFetch(i, resp)
    \/ Finish

\* as SpecFair, but the fetches of one future may never return
SpecHang == Init /\ [][Next]_vars /\ WF_vars(ProgressButHung)

----------------------------------------------------------------------------
(* The sorter on its own: sort_json::sort applied to a bounded list of records *)

Key9    == SCP_DASH \o <<"9">>
Key10   == SCP_DASH \o <<"1","0">>
key010  == scp_dash \o <<"0","1","0">>
Key100  == SCP_DASH \o <<"1","0","0">>
Key200  == SCP_DASH \o <<"2","0","0">>
Key1000 == SCP_DASH \o <<"1","0","0","0">>

SortKeys == {Key9, Key10, key010, Key100, Key200, Key1000, NameAlpha}

SortRecords == {Vanilla(k, NameBeta, FALSE) : k \in SortKeys}

InitSort ==
    /\ mode = "sort"
    /\ limit = 0
    /\ max_retries = 0
    /\ scp_info_vec = <<>>
    /\ acs_database = <<>>
    /\ backlinks = <<>>
    /\ tasks = <<>>
    /\ pc = <<>>
    /\ retries = <<>>
    /\ result = <<>>
    /\ slept = <<>>
    /\ history = <<>>
    /\ completed = <<>>
    /\ throttle_ms = <<>>
    /\ permits = 0
    /\ phase = "off"
    /\ output = <<>>
    /\ entries \in SeqsUpTo(SortRecords, MaxSortLen)
    /\ sort_pc = "unsorted"
    /\ fn_in = <<>>
    /\ fn_out = <<>>
    /\ fn_pc = "off"

\* sort_json::sort(&mut entries, "actual_number")
SortStep ==
    /\ sort_pc = "unsorted"
    /\ entries' = sort(entries, "actual_number")
    /\ sort_pc' = "sorted"
    /\ UNCHANGED <<schedVars, fnVars>>

NextSort == SortStep

SpecSort == InitSort /\ [][NextSort]_vars

----------------------------------------------------------------------------
(* clean_text on its own: applied once, then once more to its own result *)

MaxCleanLen == 4

CleanAlphabet == {"a", ":", "/", " ", "\n", "$", "{"}

CleanSamples == {<<"C","o","n","t","a","i","n","m","e","n","t"," ","C","l","a","s","s",":"," ","K","e","t","e","r">>,
                 <<"S","e","c","o","n","d","a","r","y"," ","C","l","a","s","s",":"," ","{","F","I","E","L","D"," ","L","E","F","T"," ","B","L","A","N","K","}">>,
                 <<"{","$","s","e","c","o","n","d","a","r","y","-","c","l","a","s","s","}">>,
                 <<"2","/","V","l","a","m">>,
                 <<"N","o","n","e">>,
                 <<"n","o","n","e">>,
                 <<"N","/","A">>,
                 <<"n","/","a">>,
                 <<"a",":"," ","n","o","n","e">>,
                 <<"a",":"," ","2","/","b">>,
                 <<"1","/","n","o","n","e">>}

CleanInputs == SeqsUpTo(CleanAlphabet, MaxCleanLen) \cup CleanSamples

\* every scheduler and sorter variable at rest
Idle ==
    /\ mode = "function"
    /\ limit = 0
    /\ max_retries = 0
    /\ scp_info_vec = <<>>
    /\ acs_database = <<>>
    /\ backlinks = <<>>
    /\ tasks = <<>>
    /\ pc = <<>>
    /\ retries = <<>>
    /\ result = <<>>
    /\ slept = <<>>
    /\ history = <<>>
    /\ completed = <<>>
    /\ throttle_ms = <<>>
    /\ permits = 0
    /\ phase = "off"
    /\ output = <<>>
    /\ entries = <<>>
    /\ sort_pc = "off"

InitClean ==
    /\ Idle
    /\ fn_in \in CleanInputs
    /\ fn_out = <<>>
    /\ fn_pc = "clean"

\* clean_text(raw)
CleanOnce ==
    /\ fn_pc = "clean"
    /\ fn_out' = <<clean_text(fn_in)>>
    /\ fn_pc' = "cleaned"
    /\ UNCHANGED <<schedVars, sortVars, fn_in>>

\* clean_text(clean_text(raw)), as create_acs does to a field an extractor has cleaned
CleanAgain ==
    /\ fn_pc = "cleaned"
    /\ fn_out' = Append(fn_out, clean_text(fn_out[1]))
    /\ fn_pc' = "cleaned twice"
    /\ UNCHANGED <<schedVars, sortVars, fn_in>>

NextClean == CleanOnce \/ CleanAgain

SpecClean == InitClean /\ [][NextClean]_vars

----------------------------------------------------------------------------
(* fetch_acs_data on its own: one page, fetched by the harvest or by the cross pass *)

MaxLines == 2

MarkerNames == {"has_anom_bar", "has_lite_anom_bar", "has_hybrid_anom_bar",
                "has_flops_header", "has_aim_header"}

\* texts a classification element may hold
RawValues == {<<>>, <<"K", "e", "t", "e", "r">>, <<"t", "h", "a", "u", "m", "i", "e", "l">>, <<"n", "o", "n", "e">>, <<"{", "$", "c", "l", "a", "s", "s", "}">>,
              <<"a", ":", " ", "n", "o", "n", "e">>, <<"a", ":", " ", "1", "/", "n", "o", "n", "e">>, <<"a", ":", " ", "1", "/", "b">>}

\* texts a clearance element may hold
RawClearances == {<<>>, <<"4", "/", "3", "7", "8", "7">>, <<"L", "E", "V", "E", "L", " ", "3", "/", "E", "E", "-", "7", "3", "7", "2">>, <<"a", ":", " ", "n", "o", "n", "e">>}

AimClasses == {<<"o", "n", "e">>, <<"s", "e", "v", "e", "n">>}

\* lines of the text of a page without marker
TextLines == {<<"C", "o", "n", "t", "a", "i", "n", "m", "e", "n", "t", " ", "C", "l", "a", "s", "s", ":", " ", "K", "e", "t", "e", "r">>,
              <<"D", "i", "s", "r", "u", "p", "t", "i", "o", "n", " ", "C", "l", "a", "s", "s", ":", " ", "D", "a", "r", "k">>,
              <<"d", "i", "s", "r", "u", "p", "t", "i", "o", "n", " ", "c", "l", "a", "s", "s", ":", " ", "v", "l", "a", "m">>,
              <<"R", "i", "s", "k", " ", "C", "l", "a", "s", "s", ":", " ", "n", "o", "n", "e">>,
              <<"S", "e", "c", "o", "n", "d", "a", "r", "y", " ", "C", "l", "a", "s", "s", ":", " ", "a">>,
              <<"v", "l", "a", "m">>,
              <<"t", "h", "e", " ", "V", "l", "a", "m", " ", "c", "l", "a", "s", "s">>,
              <<"a", "n", " ", "e", "k", "h", "i", " ", "i", "t", "e", "m">>}

RECURSIVE join_lines(_)
join_lines(lines) ==
    IF lines = <<>> THEN <<>>
    ELSE IF Len(lines) = 1 THEN lines[1]
    ELSE lines[1] \o <<"\n">> \o join_lines(Tail(lines))

Texts == {join_lines(lines) : lines \in SeqsUpTo(TextLines, MaxLines)}

\* pages with at least one marker: the class elements hold `contain`, `clearance` and,
\* in every other element, `other`
MarkedPages ==
    {[status |-> "200",
      has_anom_bar |-> m["has_anom_bar"], has_lite_anom_bar |-> m["has_lite_anom_bar"],
      has_hybrid_anom_bar |-> m["has_hybrid_anom_bar"],
      has_flops_header |-> m["has_flops_header"], has_aim_header |-> m["has_aim_header"],
      clearance |-> clearance, clearance_text |-> other, contain |-> contain,
      secondary |-> other, disrupt |-> other, risk |-> other,
      aim_class |-> aim_class, text |-> <<>>] :
        m \in {f \in [MarkerNames -> BOOLEAN] : \E n \in MarkerNames : f[n]},
        clearance \in RawClearances, contain \in RawValues, other \in RawValues,
        aim_class \in AimClasses}

\* pages without marker: only their text counts
PlainPages ==
    {[status |-> "200",
      has_anom_bar |-> FALSE, has_lite_anom_bar |-> FALSE, has_hybrid_anom_bar |-> FALSE,
      has_flops_header |-> FALSE, has_aim_header |-> FALSE,
      clearance |-> <<>>, clearance_text |-> <<>>, contain |-> <<>>,
      secondary |-> <<>>, disrupt |-> <<>>, risk |-> <<>>,
      aim_class |-> <<>>, text |-> text] : text \in Texts}

Pages == MarkedPages \cup PlainPages

PageNumber == format_number(300)

InitPage ==
    /\ Idle
    /\ fn_in \in Pages
    /\ fn_out = <<>>
    /\ fn_pc = "page"

\* the harvest fetches the page: fetch_acs_data(actual_number, Some(name), url, fragment)
Harvest ==
    /\ fn_pc = "page"
    /\ fn_out' = <<fetch_acs_data(<<>>, PageNumber, Some(NameDelta), fn_in, FALSE)>>
    /\ fn_pc' = "fetched"
    /\ UNCHANGED <<schedVars, sortVars, fn_in>>

\* the cross pass fetches the page: fetch_and_update_entry(actual_number, name, url, fragment)
Reconcile ==
    /\ fn_pc = "page"
    /\ fn_out' = <<fetch_and_update_entry(<<>>, PageNumber, NameDelta, fn_in, FALSE)>>
    /\ fn_pc' = "updated"
    /\ UNCHANGED <<schedVars, sortVars, fn_in>>

NextPage == Harvest \/ Reconcile

SpecPage == InitPage /\ [][NextPage]_vars

----------------------------------------------------------------------------
(* create_acs on its own: one Acs::Vanilla with a name and a caller's identifier *)

MaxNameLen == 4

NameAlphabet == {"S", "s", "c", "p", "-", "3"}

NameSamples == {NameDelta, <<"S", "C", "P", "-", "3", "0", "0">>, <<"s", "c", "p", "-", "3", "0", "0", "0">>, <<"T", "h", "e", " ", "S", "C", "P", "-", "3", "0", "0", " ", "T", "h", "i", "n", "g">>,
                <<"N", "o", "t", " ", "S", "C", "P", "-", "l", "i", "k", "e">>}

NameInputs == SeqsUpTo(NameAlphabet, MaxNameLen) \cup NameSamples

CallerNumber == format_number(500)

\* raw records that differ in their names
NamedRecords == {Vanilla(CallerNumber, name, FALSE) : name \in NameInputs}

\* raw records that differ in their classification fields
ClassRecords ==
    {[Vanilla(CallerNumber, NameDelta, FALSE) EXCEPT
         !.contain = contain, !.secondary = other, !.disrupt = other, !.risk = other,
         !.clearance = clearance, !.clearance_text = clearance_text] :
        contain \in RawValues, other \in RawValues, clearance \in RawClearances,
        clearance_text \in {<<>>, <<"S", "e", "c", "r", "e", "t">>}}

InitCreate ==
    /\ Idle
    /\ fn_in \in NamedRecords \cup ClassRecords
    /\ fn_out = <<>>
    /\ fn_pc = "vanilla"

\* create_acs(vanilla_acs)
Create ==
    /\ fn_pc = "vanilla"
    /\ fn_out' = <<create_acs(fn_in)>>
    /\ fn_pc' = "created"
    /\ UNCHANGED <<schedVars, sortVars, fn_in>>

\* create_acs(new_acs) of fetch_and_update_entry, on what fetch_acs_data's create_acs gave
CreateAgain ==
    /\ fn_pc = "created"
    /\ fn_out' = Append(fn_out, create_acs(fn_out[1]))
    /\ fn_pc' = "created twice"
    /\ UNCHANGED <<schedVars, sortVars, fn_in>>

NextCreate == Create \/ CreateAgain

SpecCreate == InitCreate /\ [][NextCreate]_vars

----------------------------------------------------------------------------
(* fetch_acs_data and its catalog lookup: one call with a name, an empty name or none *)

LookupNumbers == {format_number(1), format_number(StartNumber), format_number(300)}

LookupNames == {None, Some(<<>>), Some(NameDelta)}

LookupCatalogs == Catalogs \cup {<<>>}

InitLookup ==
    /\ Idle
    /\ fn_in \in [names : LookupCatalogs, actual_number : LookupNumbers,
                  name : LookupNames, resp : Responses]
    /\ fn_out = <<>>
    /\ fn_pc = "lookup"

\* fetch_acs_data(actual_number, name, url, &false) of a future, and its loop test
FetchWithLookup ==
    /\ fn_pc = "lookup"
    /\ LET r == fetch_acs_data(fn_in.names, fn_in.actual_number, fn_in.name,
                               fn_in.resp, FALSE)
       IN  /\ fn_out' = <<r>>
           /\ fn_pc' = IF should_retry(r, 0, MaxRetries) THEN "retry" ELSE "returned"
    /\ UNCHANGED <<schedVars, sortVars, fn_in>>

NextLookup == FetchWithLookup

SpecLookup == InitLookup /\ [][NextLookup]_vars

----------------------------------------------------------------------------
(* backlinks.rs: parse_html_to_json *)

MaxLinks == 2

BacklinkDigits == 4

Least(set) == CHOOSE i \in set : \A j \in set : i <= j

is_word_char(c) ==
    IndexIn(c, UpperChars) > 0 \/ IndexIn(c, LowerChars) > 0 \/ is_ascii_digit(c) \/ c = "_"

\* SCP_NUM_RE, (?i)\bscp-([0-9]{1,4})$ : the captured digits of the match, or None
backlinks_SCP_NUM_RE(s) ==
    LET ks == {k \in 1..BacklinkDigits :
                  /\ Len(s) >= Len(scp_dash) + k
                  /\ to_lowercase(SubSeq(s, Len(s) - k - 3, Len(s) - k)) = scp_dash
                  /\ \A j \in (Len(s) - k + 1)..Len(s) : is_ascii_digit(s[j])
                  /\ Len(s) = Len(scp_dash) + k \/ ~is_word_char(s[Len(s) - k - 4])}
    IN  IF ks = {} THEN None
        ELSE Some(SubSeq(s, Len(s) - (CHOOSE k \in ks : TRUE) + 1, Len(s)))

backlinks_extract_scp_number(scp_str) ==
    LET cap == backlinks_SCP_NUM_RE(scp_str)
    IN  IF cap.some THEN parse_u16(cap.val) ELSE None

backlinks_format_number(number, skip_zero_one) ==
    IF (number > 1 \/ ~skip_zero_one) /\ number <= PadBelow
    THEN SCP_DASH \o [i \in 1..(PadWidth - Len(decimal(number))) |-> "0"] \o decimal(number)
    ELSE IF number > PadBelow THEN SCP_DASH \o decimal(number)
    ELSE decimal(number)

Ok(v) == [tag |-> "Ok", val |-> v]

\* get_scp_name: names_file is None when output/scp_names.json cannot be read or parsed
get_scp_name(names_file, actual_number) ==
    IF ~names_file.some THEN Err
    ELSE LET hits == {i \in 1..Len(names_file.val) :
                         names_file.val[i].actual_number = actual_number}
         IN  IF hits = {} THEN Ok(actual_number)
             ELSE Ok(names_file.val[Least(hits)].name)

RegexSetWords == {<<"h", "t", "t", "p">>, <<"c", "o", "m", "p", "o", "n", "e", "n", "t">>, <<"g", "u", "i", "d", "e">>, <<"a", "u", "t", "h", "o", "r">>, <<"m", "e", "m", "o">>, <<"a", "c", "s">>,
                  <<"p", "e", "r", "s", "o", "n", "n", "e", "l">>, <<"i", "c", "o", "n", "s">>, <<"a", "r", "t", ":">>, <<"r", "e", "s", "o", "u", "r", "c", "e">>, <<"t", "h", "e", "m", "e">>}

regex_set_is_match(s) == \E w \in RegexSetWords : contains(to_lowercase(s), w)

\* re.replace_all(&name, "") for re = " \(/\S+\)"
RECURSIVE strip_path_notes(_)
strip_path_notes(name) ==
    LET ends(i) == {j \in (i + 4)..Len(name) :
                       /\ name[j] = ")"
                       /\ \A k \in (i + 3)..(j - 1) : name[k] \notin WhiteSpace}
        starts == {i \in 1..Len(name) :
                       /\ i + 2 <= Len(name)
                       /\ SubSeq(name, i, i + 2) = <<" ", "(", "/">>
                       /\ ends(i) # {}}
    IN  IF starts = {} THEN name
        ELSE LET i == Least(starts)
                 j == CHOOSE e \in ends(i) : \A f \in ends(i) : f <= e
             IN  SubSeq(name, 1, i - 1) \o strip_path_notes(SubSeq(name, j + 1, Len(name)))

\* str::replace(from, to)
RECURSIVE replace(_, _, _)
replace(s, from, to) ==
    IF Len(s) < Len(from) THEN s
    ELSE IF SubSeq(s, 1, Len(from)) = from
         THEN to \o replace(SubSeq(s, Len(from) + 1, Len(s)), from, to)
         ELSE <<Head(s)>> \o replace(Tail(s), from, to)

\* url.rsplit('/').next(): the text after the last slash
rsplit_next(url) ==
    LET slashes == {i \in 1..Len(url) : url[i] = "/"}
    IN  IF slashes = {} THEN url
        ELSE SubSeq(url, (CHOOSE i \in slashes : \A k \in slashes : k <= i) + 1, Len(url))

\* titlecase::titlecase on words that are none of its small words: the first letter of
\* each all-lowercase word is capitalised
titlecase(s) ==
    [i \in 1..Len(s) |->
        IF (i = 1 \/ s[i - 1] = " ") /\ IndexIn(s[i], LowerChars) > 0
           /\ \A k \in i..Len(s) :
                  (\A m \in i..k : s[m] # " ") => IndexIn(s[k], UpperChars) = 0
        THEN UpperChars[IndexIn(s[i], LowerChars)]
        ELSE s[i]]

url_name(url) ==
    titlecase(replace(replace(replace(replace(rsplit_next(url), <<"f", "r", "a", "g", "m", "e", "n", "t", ":">>, <<>>),
                                      <<"i", "i">>, <<"I", "I">>), <<"-", "s">>, <<"'", "s">>), <<"-">>, <<" ">>))

WIKI == <<"h", "t", "t", "p", "s", ":", "/", "/", "s", "c", "p", "-", "w", "i", "k", "i", ".", "w", "i", "k", "i", "d", "o", "t", ".", "c", "o", "m">>

PROPOSAL == <<"p", "r", "o", "p", "o", "s", "a", "l">>

\* links.iter().any(|link| link["url"] == url.as_str())
already_linked(links, url) ==
    \E i \in 1..Len(links) : links[i].url = url

\* one pass of the loop over the link elements, from the element at position i on; an
\* element is its href, its text and the response of its page (requested for a fragment)
RECURSIVE parse_links(_, _, _, _)
parse_links(names_file, elements, i, links) ==
    IF i > Len(elements) THEN Ok(links)
    ELSE
    LET element == elements[i]
        url == element.href
        is_fragment == contains(url, <<"f", "r", "a", "g", "m", "e", "n", "t", ":">>)
        name0 == trim(element.text)
        skip == regex_set_is_match(url) \/ regex_set_is_match(name0)
        name1 == strip_path_notes(name0)
        by_url == backlinks_SCP_NUM_RE(url).some /\ ~is_fragment
        raw_number == backlinks_extract_scp_number(url)
        number1 == IF by_url /\ raw_number.some
                   THEN backlinks_format_number(raw_number.val, FALSE) ELSE <<>>
        looked1 == get_scp_name(names_file, number1)
        failed1 == by_url /\ raw_number.some /\ looked1.tag = "Err"
        name2 == IF by_url THEN (IF raw_number.some /\ looked1.tag = "Ok" THEN looked1.val ELSE name1)
                 ELSE IF Len(name1) <= 1 THEN url_name(url)
                 ELSE name1
        page == element.page
        page_failed == is_fragment /\ page.tag = "Err"
        crumb == is_fragment /\ page.tag = "Ok" /\ page.val.some
        crumb_number == IF crumb THEN backlinks_extract_scp_number(page.val.val) ELSE None
        crumb_match == crumb /\ backlinks_SCP_NUM_RE(page.val.val).some
        number2 == IF crumb_match /\ crumb_number.some
                   THEN backlinks_format_number(crumb_number.val, FALSE) ELSE number1
        looked2 == get_scp_name(names_file, number2)
        failed2 == crumb_match /\ crumb_number.some /\ looked2.tag = "Err"
        name3 == IF crumb_match THEN (IF crumb_number.some /\ looked2.tag = "Ok" THEN looked2.val ELSE name2)
                 ELSE IF crumb THEN page.val.val
                 ELSE name2
        number3 == IF contains(to_lowercase(name3), PROPOSAL)
                      \/ contains(to_lowercase(url), PROPOSAL)
                   THEN <<"S", "C", "P", "-", "0", "0", "1">> ELSE number2
        pushed == IF already_linked(links, url) THEN links
                  ELSE Append(links, [actual_number |-> number3, name |-> name3,
                                      url |-> WIKI \o url, fragment |-> is_fragment])
    IN  IF skip \/ failed1 THEN parse_links(names_file, elements, i + 1, links)
        ELSE IF page_failed THEN Err
        ELSE IF failed2 THEN parse_links(names_file, elements, i + 1, links)
        ELSE parse_links(names_file, elements, i + 1, pushed)

parse_html_to_json(names_file, html_body) == parse_links(names_file, html_body, 1, <<>>)

NamesFiles == {None, Some(<<>>),
               Some(<<[actual_number |-> <<"S", "C", "P", "-", "0", "0", "7">>, name |-> <<"S", "e", "v", "e", "n">>]>>)}

NoBreadcrumb == Ok(None)

FragmentPages == {Err, NoBreadcrumb, Ok(Some(<<"S", "C", "P", "-", "7">>)), Ok(Some(<<"H", "u", "b">>))}

LinkElements ==
    {[href |-> <<"/", "s", "c", "p", "-", "7">>, text |-> <<"S", "C", "P", "-", "7">>, page |-> NoBreadcrumb],
     [href |-> <<"/", "a", "c", "s">>, text |-> <<"A", "C", "S">>, page |-> NoBreadcrumb],
     [href |-> <<"/", "b", "-", "p", "r", "o", "p", "o", "s", "a", "l">>, text |-> <<" ", "B", " ", "(", "/", "b", ")", " ">>, page |-> NoBreadcrumb],
     [href |-> <<"/", "h", "u", "b">>, text |-> <<"H", "u", "b">>, page |-> NoBreadcrumb]}
    \cup {[href |-> <<"/", "f", "r", "a", "g", "m", "e", "n", "t", ":", "a">>, text |-> <<>>, page |-> p] : p \in FragmentPages}

HtmlBodies == UNION {[1..n -> LinkElements] : n \in 0..MaxLinks}

InitBacklinks ==
    /\ Idle
    /\ fn_in \in [names_file : NamesFiles, html_body : HtmlBodies]
    /\ fn_out = <<>>
    /\ fn_pc = "page"

ParseHtml ==
    /\ fn_pc = "page"
    /\ fn_out' = <<parse_html_to_json(fn_in.names_file, fn_in.html_body)>>
    /\ fn_pc' = "parsed"
    /\ UNCHANGED <<schedVars, sortVars, fn_in>>

NextBacklinks == ParseHtml

SpecBacklinks == InitBacklinks /\ [][NextBacklinks]_vars

----------------------------------------------------------------------------
(* Properties *)

AllTransient(i) ==
    /\ history[i] # <<>>
    /\ \A k \in 1..Len(history[i]) : history[i][k].status = "error"

\* a response from which no record comes: HTTP 404, or a page without marker and without
\* any label or keyword for the text scan
YieldsNoRecord(resp) ==
    \/ resp.status = "404"
    \/ resp.status = "200" /\ ~acs_data(resp).some

Count(seq, r) == Cardinality({k \in 1..Len(seq) : seq[k] = r})

Produced(r) == {i \in TaskIds : result[i].tag = "OkSome" /\ result[i].data = r}

\* C1: in every state of a scraper or cross run, the number of futures between acquiring a
\* permit and their end (fetching, backing off, throttling) is at most the limit L.
C1_InFlightAtMostLimit == Cardinality(InFlight) <= limit

C1_Witness ==
    /\ mode = "scraper"
    /\ limit >= 1
    /\ Cardinality(InFlight) = limit
    /\ \E i \in TaskIds : pc[i] = "backoff"
    /\ \E i \in TaskIds : pc[i] = "pending" /\ tasks[i].info.some

\* C2: a scraper target all of whose attempts end in a transient error is attempted
\* exactly R+1 times, never more, and then ends without a record.
C2_TransientAttemptedRPlusOne ==
    mode = "scraper" =>
        \A i \in TaskIds :
            AllTransient(i) =>
                /\ Len(history[i]) <= max_retries + 1
                /\ pc[i] = "done" =>
                      /\ Len(history[i]) = max_retries + 1
                      /\ future_value(i) = None
                      /\ phase = "written" =>
                           \A k \in 1..Len(output) :
                               output[k].actual_number # format_number(tasks[i].number)

C2_Witness ==
    /\ mode = "scraper"
    /\ max_retries >= 2
    /\ phase = "written"
    /\ \E i \in TaskIds : pc[i] = "done" /\ AllTransient(i)
    /\ Len(output) >= 1

\* C3 as stated: the wait before the k-th retry of a scraper target is 2^k seconds.
C3_BackoffIsPowerOfTwo ==
    mode = "scraper" =>
        \A i \in TaskIds : pc[i] = "backoff" => slept[i] = 2 ^ Len(history[i])

\* C3 amended: the wait before the k-th retry of a scraper target (k = 1..R) is 2*k
\* seconds: the waits grow linearly (2, 4, 6, 8, ...).
C3_BackoffIsTwiceK ==
    mode = "scraper" =>
        \A i \in TaskIds :
            pc[i] = "backoff" =>
                /\ Len(history[i]) \in 1..max_retries
                /\ slept[i] = 2 * Len(history[i])

C3_Witness ==
    /\ mode = "scraper"
    /\ \E i \in TaskIds : pc[i] = "backoff" /\ Len(history[i]) = 3 /\ slept[i] = 6

\* C4: a scraper attempt that ends in 404, or in a page from which no record is
\* extracted, is the target's last attempt, and the target ends without a record.
C4_NoRecordIsFinal ==
    mode = "scraper" =>
        \A i \in TaskIds :
            \A k \in 1..Len(history[i]) :
                YieldsNoRecord(history[i][k]) =>
                    /\ k = Len(history[i])
                    /\ pc[i] = "done"
                    /\ future_value(i) = None
                    /\ phase = "written" =>
                         \A j \in 1..Len(output) :
                             output[j].actual_number # format_number(tasks[i].number)

C4_Witness ==
    /\ mode = "scraper"
    /\ max_retries >= 1
    /\ phase = "written"
    /\ \E i \in TaskIds : history[i] = <<Resp404>>
    /\ \E i \in TaskIds : history[i] = <<RespError, Document(FALSE, FALSE)>>

\* C5: the cross pass never makes a future for (so never fetches, never appends) a link
\* item whose identifier equals, ignoring case, that of a database record that is not
\* a fragment.
C5_KnownNumberNeverFetched ==
    mode = "cross" =>
        \A i \in TaskIds :
            ~ \E k \in 1..Len(acs_database) :
                  /\ ~acs_database[k].fragment
                  /\ eq_ignore_ascii_case(acs_database[k].actual_number,
                                          tasks[i].actual_number)

C5_Witness ==
    /\ mode = "cross"
    /\ phase = "written"
    /\ acs_database = <<RecA>>
    /\ backlinks = <<LinkSameNumber, LinkNew>>
    /\ tasks = <<LinkNew>>
    /\ history[1] # <<>>

\* C6: the cross pass drops a link item exactly when some database record matches it by
\* identifier or by name, ignoring case; fragment records in the database do not make
\* an unmatched link item count as present.
C6_FilteredOnlyWhenMatched ==
    (mode = "cross" /\ phase # "start") =>
        \A k \in 1..Len(backlinks) :
            (\E i \in TaskIds : tasks[i] = backlinks[k])
                <=> ~ \E d \in 1..Len(acs_database) :
                        \/ eq_ignore_ascii_case(acs_database[d].actual_number,
                                                backlinks[k].actual_number)
                        \/ eq_ignore_ascii_case(acs_database[d].name, backlinks[k].name)

\* C7: the cross pass is append-only: what it writes holds every database record
\* unchanged, as often as the database did, plus exactly the records its futures
\* produced.
C7_AppendOnly ==
    (mode = "cross" /\ phase = "written") =>
        /\ \A k \in 1..Len(acs_database) :
               Count(output, acs_database[k])
                   = Count(acs_database, acs_database[k])
                       + Cardinality(Produced(acs_database[k]))
        /\ \A k \in 1..Len(output) :
               Count(output, output[k])
                   = Count(acs_database, output[k]) + Cardinality(Produced(output[k]))
        /\ \A i \in TaskIds :
               result[i].tag = "OkSome" =>
                   Count(output, result[i].data)
                       = Count(acs_database, result[i].data)
                           + Cardinality(Produced(result[i].data))

C7_Witness ==
    /\ mode = "cross"
    /\ phase = "written"
    /\ acs_database = <<RecA>>
    /\ \E i \in TaskIds : result[i].tag = "OkSome"
    /\ \E i \in TaskIds : result[i].tag = "Err"
    /\ Len(output) = 2

\* C8 as stated: a cross future whose fetches all end in a transient error is retried
\* up to R times, as a scraper future is: it ends after R+1 attempts.
C8_CrossRetriesLikeScraper ==
    mode = "cross" =>
        \A i \in TaskIds :
            (pc[i] = "done" /\ AllTransient(i)) => Len(history[i]) = max_retries + 1

\* C8 amended: a cross future is attempted exactly once, whatever R is: a transient
\* error ends it at once, without backoff and without a record.
C8_CrossAttemptsOnce ==
    mode = "cross" =>
        \A i \in TaskIds :
            /\ Len(history[i]) <= 1
            /\ retries[i] = 0
            /\ slept[i] = 0
            /\ AllTransient(i) => (pc[i] = "done" /\ future_value(i) = None)
            /\ pc[i] = "done" => Len(history[i]) = 1

C8_Witness ==
    /\ mode = "cross"
    /\ max_retries >= 1
    /\ phase = "written"
    /\ \E i \in TaskIds : history[i] = <<RespError>> /\ pc[i] = "done"

\* C9: a failed target never aborts the batch: when the dataset is written every future
\* has ended, and the dataset holds the record of every future that produced one (and
\* nothing else but, in the cross pass, the database).
C9_FailuresDoNotAbort ==
    phase = "written" =>
        /\ \A i \in TaskIds : pc[i] = "done"
        /\ \A i \in TaskIds :
               result[i].tag = "OkSome" => \E k \in 1..Len(output) : output[k] = result[i].data
        /\ Len(output) = Cardinality({i \in TaskIds : result[i].tag = "OkSome"})
                            + (IF mode = "cross" THEN Len(acs_database) ELSE 0)

C9_Witness ==
    /\ phase = "written"
    /\ mode = "scraper"
    /\ max_retries >= 1
    /\ \E i \in TaskIds : result[i].tag = "Err"
    /\ \E i \in TaskIds : result[i].tag = "OkSome"
    /\ Len(output) = 1

IsPrefixDigits(s, lo, hi) ==
    /\ Len(s) \in (4 + lo)..(4 + hi)
    /\ eq_ignore_ascii_case(SubSeq(s, 1, 4), SCP_DASH)
    /\ \A k \in 5..Len(s) : is_ascii_digit(s[k])

NumericOrder(lo, hi) ==
    \A i \in 1..Len(entries) : \A j \in (i + 1)..Len(entries) :
        (IsPrefixDigits(entries[i].actual_number, lo, hi)
            /\ IsPrefixDigits(entries[j].actual_number, lo, hi))
        => digits_value(SubSeq(entries[i].actual_number, 5, Len(entries[i].actual_number)))
             <= digits_value(SubSeq(entries[j].actual_number, 5, Len(entries[j].actual_number)))

\* C10 as stated: after the sort, keys of the form prefix + 1 to 4 digits stand in the
\* order of the integer value of their digits.
C10_NumericOrderAnyWidth == sort_pc = "sorted" => NumericOrder(1, 4)

\* C10 amended: after the sort, keys of the form prefix + 3 or 4 digits (the keys of at
\* least 7 characters, as format_number writes them) stand in the order of the integer
\* value of their digits.
C10_NumericOrderFromThreeDigits == sort_pc = "sorted" => NumericOrder(3, 4)

C10_Witness ==
    /\ sort_pc = "sorted"
    /\ Len(entries) = 3
    /\ entries[1].actual_number = key010
    /\ entries[2].actual_number = Key200
    /\ entries[3].actual_number = Key1000

\* C11: after the sort, for adjacent records a before b: if b has a numeric key then a has
\* one too and a's number <= b's number; if neither has one, a's key <= b's key as
\* strings; so every record with a numeric key stands before every record without.
C11_AdjacentOrdered ==
    sort_pc = "sorted" =>
        /\ \A i \in 1..(Len(entries) - 1) :
               LET a == entries[i].actual_number
                   b == entries[i + 1].actual_number
               IN  /\ extract_scp_number(b).some =>
                          /\ extract_scp_number(a).some
                          /\ extract_scp_number(a).val <= extract_scp_number(b).val
                   /\ (~extract_scp_number(a).some /\ ~extract_scp_number(b).some) =>
                          str_cmp(a, b) # "Greater"
        /\ \A i \in 1..Len(entries) : \A j \in (i + 1)..Len(entries) :
               extract_scp_number(entries[j].actual_number).some =>
                   extract_scp_number(entries[i].actual_number).some

C11_Witness ==
    /\ sort_pc = "sorted"
    /\ Len(entries) = 3
    /\ entries[1].actual_number = Key100
    /\ entries[2].actual_number = NameAlpha
    /\ entries[3].actual_number = Key9

\* the values of the futures in the order the futures were created
in_task_order == [i \in TaskIds |-> future_value(i)]

\* C12: the written dataset is a function of the targets and their fetch outcomes alone:
\* it is what the run writes when the futures complete in the order of their creation,
\* whatever order they did complete in.
C12_OutputIndependentOfCompletionOrder ==
    phase = "written" =>
        output = IF mode = "scraper"
                 THEN sort(flatten(in_task_order), "actual_number")
                 ELSE sort(extend(acs_database, flatten(in_task_order)), "actual_number")

\* C13: clean_text is idempotent: cleaning its own result changes nothing.
C13_CleanIdempotent ==
    fn_pc = "cleaned twice" => fn_out[2] = fn_out[1]

FirstIndex(s, c) == CHOOSE i \in 1..Len(s) : s[i] = c /\ \A j \in 1..(i - 1) : s[j] # c

Occurs(s, c) == \E i \in 1..Len(s) : s[i] = c

\* the text after the first colon of t, up to the next newline, without leading whitespace
AfterColon(t) ==
    LET rest == SubSeq(t, FirstIndex(t, ":") + 1, Len(t))
        line == IF Occurs(rest, "\n") THEN SubSeq(rest, 1, FirstIndex(rest, "\n") - 1) ELSE rest
    IN  trim_start(line)

\* the four rules in their order
CleanByRules(x) ==
    LET t == trim(x)
    IN  IF contains(t, PLACEHOLDER) \/ to_lowercase(t) = NONE_WORD THEN <<>>
        ELSE IF Occurs(t, ":") THEN AfterColon(t)
        ELSE IF Occurs(t, "/") /\ ~contains(t, NA_LOWER) /\ ~contains(t, NA_UPPER)
        THEN SubSeq(t, FirstIndex(t, "/") + 1, Len(t))
        ELSE t

\* C14: clean_text applies its rules to the trimmed input in one order: placeholder or
\* "none" gives the empty string; else a colon gives the text after the first colon up to
\* the next newline, left-trimmed; else a slash outside an n/a marker gives the text after
\* the first slash; else the trimmed input. A colon wins over a slash.
C14_CleanRulesInOrder ==
    fn_pc = "cleaned" =>
        /\ fn_out[1] = CleanByRules(fn_in)
        /\ (Occurs(trim(fn_in), ":") /\ Occurs(trim(fn_in), "/")
                /\ ~contains(fn_in, PLACEHOLDER))
             => fn_out[1] = AfterColon(trim(fn_in))

C14_Witness ==
    /\ fn_pc = "cleaned"
    /\ fn_in = <<"a", "/", ":", "a">>
    /\ fn_out = << <<"a">> >>

ClassFields == {"contain", "secondary", "disrupt", "risk", "clearance", "clearance_text"}

\* the page gave a record, by either path
Assembled == fn_pc \in {"fetched", "updated"} /\ fn_out[1].tag = "OkSome"

\* C15: every classification field of an assembled record, by the harvest or the cross
\* path and by every strategy, is empty or free of noise: it is not "none" in any case
\* and holds no "{$".
C15_FieldsFreeOfNoise ==
    Assembled =>
        \A f \in ClassFields :
            \/ fn_out[1].data[f] = <<>>
            \/ /\ ~eq_ignore_ascii_case(fn_out[1].data[f], NONE_WORD)
               /\ ~contains(fn_out[1].data[f], PLACEHOLDER)

\* the strategy the priority order gives to a set of markers
ExpectedStrategy(page) ==
    IF page.has_anom_bar \/ page.has_lite_anom_bar THEN SCRAPER_BAR
    ELSE IF page.has_hybrid_anom_bar THEN SCRAPER_HYBRID
    ELSE IF page.has_flops_header THEN SCRAPER_FLOPS
    ELSE IF page.has_aim_header THEN SCRAPER_AIM
    ELSE SCRAPER_BACKUP

\* C16: for every combination of the five markers the record comes from one strategy, the
\* first present in the order Bar/Bar-lite, HybridBar, FlopsHeader, AimHeader, text scan;
\* a page with the Bar and the HybridBar marker is extracted by Bar.
C16_FirstPresentStrategy ==
    fn_pc = "fetched" =>
        /\ has_marker(fn_in) => fn_out[1].tag = "OkSome"
        /\ fn_out[1].tag = "OkSome" => fn_out[1].data.scraper = ExpectedStrategy(fn_in)
        /\ (fn_in.has_anom_bar /\ fn_in.has_hybrid_anom_bar)
               => fn_out[1].data.scraper = SCRAPER_BAR

C16_Witness ==
    /\ fn_pc = "fetched"
    /\ fn_in.has_anom_bar /\ fn_in.has_hybrid_anom_bar
    /\ ~fn_in.has_lite_anom_bar /\ fn_in.has_flops_header /\ fn_in.has_aim_header
    /\ fn_out[1].tag = "OkSome"
    /\ fn_out[1].data.scraper = SCRAPER_BAR

ByHeader(page) ==
    /\ ~page.has_anom_bar /\ ~page.has_lite_anom_bar /\ ~page.has_hybrid_anom_bar
    /\ page.has_flops_header \/ page.has_aim_header

InVocabulary(class) ==
    to_lowercase(class) \in {<<"s", "a", "f", "e">>, <<"e", "u", "c", "l", "i", "d">>, <<"k", "e", "t", "e", "r">>, <<"n", "e", "u", "t", "r", "a", "l", "i", "z", "e", "d">>,
                             <<"p", "e", "n", "d", "i", "n", "g">>, <<"e", "x", "p", "l", "a", "i", "n", "e", "d">>, <<"e", "s", "o", "t", "e", "r", "i", "c">>}

\* C17: a FlopsHeader or AimHeader page whose cleaned containment value is outside the
\* vocabulary gives a record with contain = "esoteric" and secondary = that cleaned value.
C17_DemotionKeepsValue ==
    (Assembled /\ ByHeader(fn_in) /\ ~InVocabulary(clean_text(fn_in.contain))) =>
        /\ fn_out[1].data.contain = <<"e", "s", "o", "t", "e", "r", "i", "c">>
        /\ fn_out[1].data.secondary = clean_text(fn_in.contain)

NoMarker(page) == \A n \in MarkerNames : ~page[n]

\* the cleaned values the text scan finds on a page
Scanned(page) ==
    LET text == to_lowercase(page.text)
    IN  [contain |-> get_clean(label_value(text, LABEL_CONTAIN)),
         disrupt |-> get_clean(IF keyword_found(text).some THEN keyword_found(text)
                               ELSE label_value(text, LABEL_DISRUPT)),
         risk |-> get_clean(label_value(text, LABEL_RISK)),
         secondary |-> get_clean(label_value(text, LABEL_SECONDARY))]

DisruptionKeywords == {<<"v", "l", "a", "m">>, <<"k", "e", "n", "e", "q">>, <<"e", "k", "h", "i">>, <<"a", "m", "i", "d", "a">>}

\* C19: on a page without marker whose text holds one of the four keywords, the record's
\* disrupt is a keyword the text holds, whatever the "disruption class:" label says; the
\* page "disruption class: vlam" gives a scan record with disrupt "vlam" and contain "".
C19_KeywordOverridesLabel ==
    (fn_pc = "fetched" /\ NoMarker(fn_in)) =>
        /\ (\E k \in DisruptionKeywords : contains(to_lowercase(fn_in.text), k)) =>
               /\ fn_out[1].tag = "OkSome"
               /\ fn_out[1].data.disrupt \in
                      {k \in DisruptionKeywords : contains(to_lowercase(fn_in.text), k)}
        /\ fn_in.text = <<"d", "i", "s", "r", "u", "p", "t", "i", "o", "n", " ", "c", "l", "a", "s", "s", ":", " ", "v", "l", "a", "m">> =>
               /\ fn_out[1].tag = "OkSome"
               /\ fn_out[1].data.scraper = SCRAPER_BACKUP
               /\ fn_out[1].data.disrupt = <<"v", "l", "a", "m">>
               /\ fn_out[1].data.contain = <<>>

MaxIdDigits == 4

\* where the identifier pattern, "scp-" and a digit in any case, starts in a name
PatternStarts(name) ==
    {i \in 1..Len(name) :
        /\ i + Len(scp_dash) <= Len(name)
        /\ to_lowercase(SubSeq(name, i, i + Len(scp_dash) - 1)) = scp_dash
        /\ is_ascii_digit(name[i + Len(scp_dash)])}

Smaller(a, b) == IF a <= b THEN a ELSE b

\* the part of the name that matches the pattern: "scp-" and its digits
PatternMatch(name) ==
    LET i == Least(PatternStarts(name))
        digits == take_while_digit(SubSeq(name, i + Len(scp_dash), Len(name)))
    IN  SubSeq(name, i, i + Len(scp_dash) - 1 + Smaller(Len(digits), MaxIdDigits))

\* C20: a name that holds the identifier pattern gives the record the part of the name
\* that matches it as identifier; any other name leaves the caller's identifier.
C20_IdentifierIsPatternMatch ==
    fn_pc = "created" =>
        fn_out[1].actual_number =
            IF PatternStarts(fn_in.name) # {} THEN PatternMatch(fn_in.name)
            ELSE fn_in.actual_number

\* the call looks the name up and the catalog has no entry for the identifier
LookupMisses(call) ==
    /\ call.resp.status = "200"
    /\ ~call.name.some \/ call.name.val = <<>>
    /\ to_lowercase(call.actual_number) \notin
           {to_lowercase(format_number(0)), to_lowercase(format_number(1))}
    /\ \A k \in 1..Len(call.names) : call.names[k].actual_number # call.actual_number

\* C21: a catalog lookup that finds no entry is not fatal: the page is extracted, the
\* record carries the caller's identifier and name as they are, and the target is
\* neither retried nor lost.
C21_LookupMissIsNotFatal ==
    (fn_pc \in {"retry", "returned"} /\ LookupMisses(fn_in) /\ acs_data(fn_in.resp).some) =>
        /\ fn_pc = "returned"
        /\ fn_out[1].tag = "OkSome"
        /\ fn_out[1].data.actual_number = fn_in.actual_number
        /\ fn_out[1].data.name = IF fn_in.name.some THEN fn_in.name.val ELSE <<>>

\* C22: once a harvest or a cross pass has written the dataset, no two of its records
\* have the same identifier.
C22_IdentifiersUnique ==
    phase = "written" =>
        \A i \in 1..Len(output) : \A j \in 1..Len(output) :
            output[i].actual_number = output[j].actual_number => i = j

\* C23 as stated: a field the record's strategy does not produce is empty: risk for Flops
\* Header, clearance text and risk for AIM Header, clearance and clearance text for the
\* text scan.
C23_AbsentFieldsEmpty ==
    Assembled =>
        /\ fn_out[1].data.scraper = SCRAPER_FLOPS => fn_out[1].data.risk = <<>>
        /\ fn_out[1].data.scraper = SCRAPER_AIM =>
               fn_out[1].data.clearance_text = <<>> /\ fn_out[1].data.risk = <<>>
        /\ fn_out[1].data.scraper = SCRAPER_BACKUP =>
               fn_out[1].data.clearance = <<>> /\ fn_out[1].data.clearance_text = <<>>

\* the clearance text that goes with a clearance: the text of "LEVEL 1" .. "LEVEL 6"
\* without its trailing space, empty for any other clearance
LevelText(clearance) ==
    IF \E k \in 1..Len(ClearanceTexts) : clearance = LEVEL \o decimal(k)
    THEN trim_end(ClearanceTexts[CHOOSE k \in 1..Len(ClearanceTexts) :
                                     clearance = LEVEL \o decimal(k)])
    ELSE <<>>

\* C23 amended: risk is empty for Flops Header and AIM Header, clearance and clearance
\* text are empty for the text scan; the clearance text of an AIM Header record is the
\* text of its clearance level, empty only when the level is none of LEVEL 1 .. LEVEL 6.
C23_AbsentFieldsDefaulted ==
    Assembled =>
        /\ fn_out[1].data.scraper = SCRAPER_FLOPS => fn_out[1].data.risk = <<>>
        /\ fn_out[1].data.scraper = SCRAPER_AIM =>
               /\ fn_out[1].data.risk = <<>>
               /\ fn_out[1].data.clearance_text = LevelText(fn_out[1].data.clearance)
        /\ fn_out[1].data.scraper = SCRAPER_BACKUP =>
               fn_out[1].data.clearance = <<>> /\ fn_out[1].data.clearance_text = <<>>

C23_Witness ==
    /\ fn_pc = "fetched"
    /\ fn_out[1].tag = "OkSome"
    /\ fn_out[1].data.scraper = SCRAPER_AIM
    /\ fn_in.disrupt = <<"K", "e", "t", "e", "r">>
    /\ fn_out[1].data.disrupt = <<"K", "e", "t", "e", "r">>
    /\ fn_out[1].data.risk = <<>>
    /\ fn_out[1].data.clearance = LEVEL \o <<"1">>
    /\ fn_out[1].data.clearance_text = <<"U", "n", "r", "e", "s", "t", "r", "i", "c", "t", "e", "d">>

Last(seq) == seq[Len(seq)]

\* in the order of completion, future i is not there yet
NotYielded(i) == \A k \in 1..Len(completed) : completed[k] # i

\* C24 as stated: a scraper future whose last fetch found the page has slept the fixed
\* delay by the time it ends.
C24_ThrottleAfterPageFound ==
    mode = "scraper" =>
        \A i \in TaskIds :
            (pc[i] = "done" /\ history[i] # <<>> /\ Last(history[i]).status = "200")
                => throttle_ms[i] = THROTTLE_MS

\* C24 amended: a scraper future sleeps the fixed delay exactly when its fetch gave a
\* record; while it sleeps it holds its permit and has not completed; the delay is the
\* same for every limit; a page without record ends the future without delay.
C24_ThrottleAfterRecord ==
    mode = "scraper" =>
        \A i \in TaskIds :
            /\ pc[i] = "throttle" =>
                   /\ result[i].tag = "OkSome"
                   /\ throttle_ms[i] = THROTTLE_MS
                   /\ NotYielded(i)
                   /\ permits < limit
            /\ pc[i] = "done" =>
                   throttle_ms[i] = IF result[i].tag = "OkSome" THEN THROTTLE_MS ELSE 0

C24_Witness ==
    /\ mode = "scraper"
    /\ limit = MaxLimit
    /\ \E i \in TaskIds : \E j \in TaskIds :
           /\ pc[i] = "done" /\ throttle_ms[i] = THROTTLE_MS
           /\ pc[j] = "done" /\ throttle_ms[j] = 0
           /\ history[j] # <<>> /\ Last(history[j]).status = "200"

\* C26: permits are conserved: the free permits and the futures that hold one add up to
\* the limit in every state; a future has made no attempt before it holds its permit,
\* holds it through every fetch, backoff and throttle, holds none once it has returned,
\* and when the dataset is written all permits are free.
C26_PermitsConserved ==
    phase # "start" =>
        /\ permits >= 0
        /\ permits + Cardinality(InFlight) = limit
        /\ \A i \in TaskIds :
               /\ pc[i] = "pending" => history[i] = <<>> /\ retries[i] = 0
               /\ pc[i] = "done" => ~NotYielded(i)
               /\ pc[i] \in InFlightPcs => NotYielded(i)
               /\ Cardinality({k \in 1..Len(completed) : completed[k] = i}) <= 1
        /\ phase = "written" => permits = limit

C26_Witness ==
    /\ phase = "written"
    /\ mode = "scraper"
    /\ limit = MaxLimit
    /\ permits = limit
    /\ \E i \in TaskIds : retries[i] = max_retries /\ max_retries > 0 /\ Len(history[i]) > 1
    /\ \E j \in TaskIds : result[j].tag = "OkSome"

MaxTasks == IF MaxTargets > MaxFeed THEN MaxTargets ELSE MaxFeed

\* C25: with a limit of 2 or more, whatever the fetches of one future do, every other
\* future reaches its end (record or none).
C25_HungFetchBlocksOnlyItself ==
    \A i \in 1..MaxTasks :
        (phase = "running" /\ limit >= 2 /\ i \in TaskIds /\ i # Hung)
            ~> (i \in TaskIds /\ pc[i] = "done")

C25_Witness ==
    /\ phase = "running"
    /\ limit >= 2
    /\ Hung \in TaskIds
    /\ pc[Hung] = "fetch"
    /\ history[Hung] = <<>>
    /\ \E i \in TaskIds : i # Hung /\ pc[i] = "done" /\ result[i].tag = "OkSome"

NeedsPermit(i) == mode = "scraper" => tasks[i].info.some

\* what C27 says for a limit of 1 or more, and that the dataset is written once
Completes ==
    /\ (phase = "start" /\ limit >= 1) ~> (phase = "written")
    /\ [](phase = "written" => \A i \in TaskIds : pc[i] = "done")
    /\ [][phase = "written" => phase' = "written" /\ output' = output]_vars
    /\ [](limit = 0 => \A i \in TaskIds : history[i] = <<>>)

\* C27 as stated: with a limit of 1 or more and fetches that return, every target ends
\* and the dataset is sorted and written once, after the last target; with a limit of 0
\* no target starts and the dataset is never written.
C27_CompletesUnlessLimitZero ==
    /\ Completes
    /\ [](limit = 0 => phase # "written")

\* C27 amended: as stated for a limit of 1 or more; with a limit of 0 no target is
\* fetched, and the dataset is written only when no future needs a permit (never, when
\* one does).
C27_CompletesUnlessPermitNeeded ==
    /\ Completes
    /\ []((limit = 0 /\ phase = "written") => \A i \in TaskIds : ~NeedsPermit(i))

C27_Witness ==
    /\ phase = "written"
    /\ limit = 1
    /\ max_retries = MaxRetries
    /\ Len(tasks) = MaxTargets
    /\ \A i \in TaskIds : pc[i] = "done" /\ history[i] # <<>>
    /\ \E i \in TaskIds : retries[i] = MaxRetries

\* C28: create_acs is idempotent: assembling an assembled record again, as the cross
\* pass does, changes none of its fields.
C28_CreateIdempotent ==
    fn_pc = "created twice" => fn_out[2] = fn_out[1]

HasDigit(text) == \E i \in 1..Len(text) : is_ascii_digit(text[i])

FirstDigit(text) == text[Least({i \in 1..Len(text) : is_ascii_digit(text[i])})]

ByBarOrFlops(page) ==
    \/ page.has_anom_bar \/ page.has_lite_anom_bar
    \/ ~page.has_hybrid_anom_bar /\ page.has_flops_header

\* C29: a Bar or Flops Header page whose raw clearance text holds a digit is assembled
\* with clearance "LEVEL d", d the first digit of the raw text: what
\* clearance_level_conversion gives on the raw text.
C29_ClearanceFromFirstDigit ==
    (Assembled /\ ByBarOrFlops(fn_in) /\ HasDigit(fn_in.clearance)) =>
        /\ fn_out[1].data.clearance = LEVEL \o <<FirstDigit(fn_in.clearance)>>
        /\ fn_out[1].data.clearance = clearance_level_conversion(fn_in.clearance)

Parsed == fn_pc = "parsed" /\ fn_out[1].tag = "Ok"

\* C30: parse_html_to_json returns a list in which no two entries come from the same
\* link URL: of an href listed more than once, only the first occurrence is emitted.
C30_OneEntryPerHref ==
    Parsed =>
        \A i, j \in 1..Len(fn_out[1].val) :
            fn_out[1].val[i].url = fn_out[1].val[j].url => i = j

====
